---- MODULE Spec2Model ----
(***************************************************************************)
(* The temporal event timeline of the monitoring drawer: the builder      *)
(* buildEventsFromAnalysis with its identity resolver and sort, the        *)
(* selection filter, and the VerticalTimeline layout, together with the    *)
(* drawer state (RightGlassDrawer) that holds their inputs and results.    *)
(*                                                                         *)
(* Numbers.  A JavaScript number is modelled as a fixed-point value: the   *)
(* integer x stands for the number x / Den.  Whole numbers are the         *)
(* multiples of Den, Math.floor rounds down to one of them.  NaN and the   *)
(* infinities are not modelled.  Products and quotients (secToY, the       *)
(* height) are computed exactly, as rationals, where the code uses         *)
(* floating point.                                                         *)
(*                                                                         *)
(* Strings.  Names and event ids are sequences of one-character strings,   *)
(* so that trimming and template concatenation are computed.  An optional  *)
(* value (null, undefined or a missing field) is the empty sequence <<>>,  *)
(* a present value v is <<v>>.                                             *)
(***************************************************************************)
EXTENDS Integers, Sequences, FiniteSets, TLC

\* Denominator of the fixed-point numbers (2: halves).
Den == 2

Num(n) == n * Den

Floor_Identity(x) == x

\* Math.floor
Floor(x) == (x \div Den) * Den

Max(a, b) == IF a >= b THEN a ELSE b

Min(a, b) == IF a <= b THEN a ELSE b

\* JavaScript's %: the remainder has the sign of the dividend.
JsRem(a, b) == IF a >= 0 THEN a % b ELSE -((-a) % b)

None == <<>>

Some(v) == <<v>>

\* opt ?? d
OrElse(opt, d) == IF opt = None THEN d ELSE opt[1]

Undefined == "undefined"

\* null where a record (a warning, a sample, a person, the payload) is expected
Null == [null |-> TRUE]

\* a payload that is a number or a string: every property read of it gives
\* undefined
Scalar == [scalar |-> TRUE]

(***************************************************************************)
(* Strings                                                                 *)
(***************************************************************************)
RECURSIVE TrimLeft(_)
TrimLeft(s) == IF s # <<>> /\ Head(s) = " " THEN TrimLeft(Tail(s)) ELSE s

RECURSIVE TrimRight(_)
TrimRight(s) ==
    IF s # <<>> /\ s[Len(s)] = " " THEN TrimRight(SubSeq(s, 1, Len(s) - 1)) ELSE s

\* String.prototype.trim
Trim(s) == TrimRight(TrimLeft(s))

DigitChar(d) == <<"0", "1", "2", "3", "4", "5", "6", "7", "8", "9">>[d + 1]

RECURSIVE Digits(_)
Digits(n) == IF n < 10 THEN <<DigitChar(n)>> ELSE Digits(n \div 10) \o <<DigitChar(n % 10)>>

\* `${x}` of a whole number x (a multiple of Den)
NumToStr(x) == IF x < 0 THEN <<"-">> \o Digits((-x) \div Den) ELSE Digits(x \div Den)

UnknownName == <<"U", "n", "k", "n", "o", "w", "n">>

UnknownAction == "unknown"

UNKNOWN_ID == "__unknown__"

(***************************************************************************)
(* RightGlassDrawer: helpers                                               *)
(***************************************************************************)
clamp(v, lo, hi) == Max(lo, Min(hi, v))

severityRank_AllEqual(s) == 1

severityRank(s) == IF s = "high" THEN 3 ELSE IF s = "medium" THEN 2 ELSE 1

NameToIdGet_FirstWins(roster, key) ==
    LET hits == {i \in DOMAIN roster : Trim(roster[i].name) = key}
    IN  IF hits = {} THEN None
        ELSE Some(roster[CHOOSE i \in hits : \A j \in hits : i <= j].id)

\* nameToId.get(key): the map is filled in roster order, a later entry with the
\* same trimmed name replaces an earlier one.
NameToIdGet(roster, key) ==
    LET hits == {i \in DOMAIN roster : Trim(roster[i].name) = key}
    IN  IF hits = {} THEN None
        ELSE Some(roster[CHOOSE i \in hits : \A j \in hits : j <= i].id)

toPersonId_NoTrim(name, roster) == OrElse(NameToIdGet(roster, name), UNKNOWN_ID)

toPersonId(name, roster) == OrElse(NameToIdGet(roster, Trim(name)), UNKNOWN_ID)

StableSort_TiesReversed(s, cmp) ==
    LET n == Len(s)
        Before(j, i) == cmp[j, i] < 0 \/ (cmp[j, i] = 0 /\ j > i)
        Rank(i) == Cardinality({j \in 1..n : Before(j, i)}) + 1
    IN  [k \in 1..n |-> s[CHOOSE i \in 1..n : Rank(i) = k]]

\* Array.prototype.sort with a consistent comparator: a stable sort.
\* cmp[j, i] is the comparator's value on the elements at positions j and i.
StableSort(s, cmp) ==
    LET n == Len(s)
        Before(j, i) == cmp[j, i] < 0 \/ (cmp[j, i] = 0 /\ j < i)
        Rank(i) == Cardinality({j \in 1..n : Before(j, i)}) + 1
    IN  [k \in 1..n |-> s[CHOOSE i \in 1..n : Rank(i) = k]]

\* the comparator of out.sort
EventCmp(a1, a2) ==
    IF a1.atSec # a2.atSec THEN a1.atSec - a2.atSec
    ELSE LET w1 == IF a1.variant = "warn" THEN 1 ELSE 0
             w2 == IF a2.variant = "warn" THEN 1 ELSE 0
         IN  IF w1 # w2 THEN w2 - w1
             ELSE severityRank(a2.severity) - severityRank(a1.severity)

RECURSIVE SeqMax(_)
SeqMax(s) == IF Len(s) = 1 THEN s[1] ELSE Max(s[1], SeqMax(Tail(s)))

RECURSIVE Flatten(_)
Flatten(ss) == IF ss = <<>> THEN <<>> ELSE Head(ss) \o Flatten(Tail(ss))

\* the fixed downsampling step of the observation samples, in seconds
STEP == 10

WarnPrefix == <<"w", "a", "r", "n", "-">>

ActPrefix == <<"a", "c", "t", "-">>

\* Math.max(...a.timeline.map((x) => x.t)) + 1, or 0 for an empty timeline;
\* None stands for NaN (a sample without t).
DurFromTimeline(a) ==
    IF Len(a.timeline) = 0 THEN Some(0)
    ELSE IF \E k \in DOMAIN a.timeline : a.timeline[k].t = None THEN None
    ELSE Some(SeqMax([k \in DOMAIN a.timeline |-> a.timeline[k].t[1]]) + Num(1))

ResolveDuration_ExplicitOrZero(a) ==
    Max(0, Floor(OrElse(a.video.duration_sec, 0)))

\* safeDuration of buildEventsFromAnalysis
ResolveDuration(a) ==
    LET durFromJson == a.video.duration_sec
        duration == IF durFromJson # None THEN durFromJson ELSE DurFromTimeline(a)
    IN  Max(0, Floor(OrElse(duration, 0)))

ClampEventTime_NoClamp(t, safeDuration) == t

\* clamp(t, 0, Math.max(1, safeDuration))
ClampEventTime(t, safeDuration) == clamp(t, 0, Max(Num(1), safeDuration))

\* one warning record -> one event
WarningEvent(w, i, safeDuration, roster) ==
    LET t == ClampEventTime(Floor(OrElse(w.start_sec, 0)), safeDuration)
        personName == IF w.person = <<>> THEN UnknownName ELSE w.person
    IN  [id         |-> WarnPrefix \o Digits(i) \o <<"-">> \o personName \o <<"-">> \o NumToStr(t),
         personId   |-> toPersonId(personName, roster),
         atSec      |-> t,
         label      |-> <<"warn", personName, w.type, w.severity>>,
         variant    |-> "warn",
         severity   |-> w.severity,
         confidence |-> None]

SampleKept_Always(t) == TRUE

\* the negation of `t % STEP !== 0`
SampleKept(t) == JsRem(t, Num(STEP)) = 0

\* one observation sample -> one event per listed person, or none
SampleEvents(item, safeDuration, roster) ==
    LET t == Floor(OrElse(item.t, 0))
    IN  IF ~SampleKept(t) THEN <<>>
        ELSE [k \in DOMAIN item.people |->
                LET pp == item.people[k]
                    nm == IF pp.name = <<>> THEN UnknownName ELSE pp.name
                    action == IF pp.action = "" THEN UnknownAction ELSE pp.action
                IN  [id         |-> ActPrefix \o NumToStr(t) \o <<"-">> \o nm,
                     personId   |-> toPersonId(nm, roster),
                     atSec      |-> ClampEventTime(t, safeDuration),
                     label      |-> <<"info", nm, action>>,
                     variant    |-> "info",
                     severity   |-> Undefined,
                     confidence |-> pp.confidence]]

\* buildEventsFromAnalysis throws a TypeError: a property read of null.  The
\* payload itself (a.video), a sample (x.t, read for durFromTimeline whether or
\* not the duration is explicit), a warning (w.start_sec), or a person of a
\* sample that passes the STEP test (pp.name).
BuildRaises(a) ==
    \/ a = Null
    \/ /\ a # Scalar
       /\ \/ \E k \in DOMAIN a.timeline : a.timeline[k] = Null
          \/ \E i \in DOMAIN a.warnings : a.warnings[i] = Null
          \/ \E k \in DOMAIN a.timeline :
                /\ SampleKept(Floor(OrElse(a.timeline[k].t, 0)))
                /\ \E j \in DOMAIN a.timeline[k].people : a.timeline[k].people[j] = Null

OutBeforeSort_DropsUnknown(a, safeDuration, roster) ==
    LET warnEvents == [i \in DOMAIN a.warnings |->
                          WarningEvent(a.warnings[i], i - 1, safeDuration, roster)]
        actEvents == Flatten([k \in DOMAIN a.timeline |->
                          SampleEvents(a.timeline[k], safeDuration, roster)])
    IN  SelectSeq(warnEvents \o actEvents, LAMBDA ev : ev.personId # UNKNOWN_ID)

\* out, as the two loops fill it: the warnings, then the observations
OutBeforeSort(a, safeDuration, roster) ==
    LET warnEvents == [i \in DOMAIN a.warnings |->
                          WarningEvent(a.warnings[i], i - 1, safeDuration, roster)]
        actEvents == Flatten([k \in DOMAIN a.timeline |->
                          SampleEvents(a.timeline[k], safeDuration, roster)])
    IN  warnEvents \o actEvents

\* buildEventsFromAnalysis(a), with the roster its effect captured, where it
\* does not throw.  Of a number or a string, a.video, a.timeline and a.warnings
\* are undefined: duration 0 and no events.
buildEventsFromAnalysis(a, roster) ==
    IF a = Scalar THEN [safeDuration |-> 0, out |-> <<>>]
    ELSE
    LET safeDuration == ResolveDuration(a)
        out == OutBeforeSort(a, safeDuration, roster)
    IN  [safeDuration |-> safeDuration,
         out          |-> StableSort(out,
                             [j \in DOMAIN out, i \in DOMAIN out |-> EventCmp(out[j], out[i])])]

filteredEvents_KeepAll(evs, sel) == evs

\* the filteredEvents memo
filteredEvents(evs, sel) ==
    IF sel = None \/ sel[1] = "" THEN evs
    ELSE SelectSeq(evs, LAMBDA e : e.personId = sel[1])

(***************************************************************************)
(* VerticalTimeline                                                        *)
(***************************************************************************)
\* Math.round of the rational p / q (q > 0): a whole number
RoundRat(p, q) == Num((2 * p + q) \div (2 * q))

VtSafeDuration(d) == Max(Num(1), Floor(d))

VtHeightPx_NoMinimum(safeDuration, minHeightPx, pxPerMinute) ==
    RoundRat(safeDuration * pxPerMinute, 60 * Den * Den)

\* Math.max(minHeightPx, Math.round((safeDuration / 60) * pxPerMinute))
VtHeightPx(safeDuration, minHeightPx, pxPerMinute) ==
    Max(minHeightPx, RoundRat(safeDuration * pxPerMinute, 60 * Den * Den))

secToY_NoPadTop(sec, duration, padTop, padBottom, height) ==
    LET usable == Max(Num(1), height - padTop - padBottom)
        d == Max(Num(1), duration)
    IN  [num |-> clamp(sec, 0, duration) * usable, den |-> d]

secToY_NoUsableFloor(sec, duration, padTop, padBottom, height) ==
    LET usable == height - padTop - padBottom
        d == Max(Num(1), duration)
    IN  [num |-> padTop * d + clamp(sec, 0, duration) * usable, den |-> d]

\* padTop + (clamp(sec, 0, duration) / Math.max(1, duration)) * usable, as the
\* rational num / den of fixed-point values (den > 0)
secToY(sec, duration, padTop, padBottom, height) ==
    LET usable == Max(Num(1), height - padTop - padBottom)
        d == Max(Num(1), duration)
    IN  [num |-> padTop * d + clamp(sec, 0, duration) * usable, den |-> d]

RatLeq(a, b) == a.num * b.den <= b.num * a.den

RECURSIVE TickLoop_StopsShort(_, _, _)
TickLoop_StopsShort(t, step, safeDuration) ==
    IF t < safeDuration THEN <<t>> \o TickLoop_StopsShort(t + step, step, safeDuration)
    ELSE <<>>

\* for (let t = 0; t <= safeDuration; t += step) out.push(t)
RECURSIVE TickLoop(_, _, _)
TickLoop(t, step, safeDuration) ==
    IF t <= safeDuration THEN <<t>> \o TickLoop(t + step, step, safeDuration) ELSE <<>>

VtLabels_NoEndLabel(labelEverySec, safeDuration) ==
    TickLoop(0, Max(Num(1), Floor(labelEverySec)), safeDuration)

\* the labels memo
VtLabels(labelEverySec, safeDuration) ==
    LET step == Max(Num(1), Floor(labelEverySec))
        out == TickLoop(0, step, safeDuration)
    IN  IF out[Len(out)] # safeDuration THEN Append(out, safeDuration) ELSE out

VtMinorTicks_FractionStep(minorTickEverySec, safeDuration) ==
    IF minorTickEverySec = None \/ minorTickEverySec[1] = 0 THEN <<>>
    ELSE TickLoop(0, Max(1, minorTickEverySec[1]), safeDuration)

\* the minorTicks memo; minorTickEverySec is optional
VtMinorTicks(minorTickEverySec, safeDuration) ==
    IF minorTickEverySec = None \/ minorTickEverySec[1] = 0 THEN <<>>
    ELSE TickLoop(0, Max(Num(1), Floor(minorTickEverySec[1])), safeDuration)

VtCmp_Descending(a, b) == b.atSec - a.atSec

\* the comparator of the sort of normalizedEvents
VtCmp(a, b) == a.atSec - b.atSec

\* the normalizedEvents memo
VtNormalizedEvents(evs, safeDuration) ==
    LET mapped == [k \in DOMAIN evs |->
            [evs[k] EXCEPT !.atSec = clamp(Floor(evs[k].atSec), 0, safeDuration)]]
    IN  StableSort(mapped,
            [j \in DOMAIN mapped, i \in DOMAIN mapped |-> VtCmp(mapped[j], mapped[i])])

\* the defaults of the optional props
DefaultLabelEverySec == 60

DefaultMinHeightPx == 520

DefaultPxPerMinute == 60

DefaultPadPx == 22

\* what one render of VerticalTimeline puts on the screen
VerticalTimeline(d, evs, props) ==
    LET labelEverySec == OrElse(props.labelEverySec, Num(DefaultLabelEverySec))
        minHeightPx == OrElse(props.minHeightPx, Num(DefaultMinHeightPx))
        pxPerMinute == OrElse(props.pxPerMinute, Num(DefaultPxPerMinute))
        padTopPx == OrElse(props.padTopPx, Num(DefaultPadPx))
        padBottomPx == OrElse(props.padBottomPx, Num(DefaultPadPx))
        safeDuration == VtSafeDuration(d)
        heightPx == VtHeightPx(safeDuration, minHeightPx, pxPerMinute)
        Y(t) == secToY(t, safeDuration, padTopPx, padBottomPx, heightPx)
        normalizedEvents == VtNormalizedEvents(evs, safeDuration)
        labels == VtLabels(labelEverySec, safeDuration)
        minor == SelectSeq(VtMinorTicks(props.minorTickEverySec, safeDuration),
                     LAMBDA t : JsRem(t, Max(Num(1), Floor(labelEverySec))) # 0)
    IN  [safeDuration |-> safeDuration,
         heightPx     |-> heightPx,
         padTopPx     |-> padTopPx,
         padBottomPx  |-> padBottomPx,
         labels       |-> [k \in DOMAIN labels |-> [t |-> labels[k], y |-> Y(labels[k])]],
         minorTicks   |-> [k \in DOMAIN minor |-> [t |-> minor[k], y |-> Y(minor[k])]],
         events       |-> [k \in DOMAIN normalizedEvents |->
                             [ev |-> normalizedEvents[k], y |-> Y(normalizedEvents[k].atSec)]]]

(***************************************************************************)
(* The drawer's state                                                      *)
(***************************************************************************)
VARIABLES
    server,            \* the backend's answer to an analysis request, per clip
    serverPeople,      \* the backend's roster
    life,              \* the component: "new", "mounted" or "unmounted"
    dayId,             \* prop
    activeClipId,      \* prop: the clip shown, optional
    people,            \* the roster, as loaded
    selectedPersonId,  \* optional
    durationSec,
    events,
    analysis,          \* optional
    analysisLoading,
    peopleReqs,        \* getAllPeople requests in flight: [alive]
    analysisReqs,      \* analysis requests in flight: [clip, roster, alive]
    filtered,          \* the filteredEvents memo
    vtProps,           \* the props VerticalTimeline is rendered with
    vt                 \* what VerticalTimeline rendered last

vars == <<server, serverPeople, life, dayId, activeClipId, people, selectedPersonId,
          durationSec, events, analysis, analysisLoading, peopleReqs, analysisReqs,
          filtered, vtProps, vt>>

\* what no handler of the drawer writes
env == <<server, serverPeople, vtProps>>

\* the props the drawer passes to VerticalTimeline
DrawerVtProps ==
    [labelEverySec     |-> Some(Num(120)),
     minorTickEverySec |-> Some(Num(30)),
     minHeightPx       |-> Some(Num(560)),
     pxPerMinute       |-> Some(Num(70)),
     padTopPx          |-> Some(Num(56)),
     padBottomPx       |-> Some(Num(28))]

\* The array given to events.filter, as the call leaves it: filter builds a new
\* array and writes nothing.
GivenAfterFilter(evs, sel) == evs

GivenAfterLayout_ReversedInPlace(evs, safeDuration) ==
    [k \in DOMAIN evs |-> evs[Len(evs) + 1 - k]]

\* The array given to VerticalTimeline, as the normalizedEvents memo leaves it:
\* [...events] copies it, map builds new objects, sort orders the copy.
GivenAfterLayout(evs, safeDuration) == evs

\* The array evs held as `events`, after the render under selection sel and
\* duration d: the filter reads it, and with no selection the filter returns
\* that same array, which VerticalTimeline is then given.
HeldAfterRender(evs, sel, d) ==
    LET given == GivenAfterFilter(evs, sel)
    IN  IF sel = None \/ sel[1] = "" THEN GivenAfterLayout(given, VtSafeDuration(d))
        ELSE given

\* `events` holds evs when the handler and the render that follows it are done
\* (selectedPersonId' and durationSec' are set by the handler).
SetEvents(evs) == events' = HeldAfterRender(evs, selectedPersonId', durationSec')

\* React renders after every state change: the memo and the timeline follow
\* the new state.
Rerender ==
    /\ filtered' = filteredEvents(events', selectedPersonId')
    /\ vt' = VerticalTimeline(durationSec', filtered', vtProps')

\* most requests of one kind in flight at once
MaxInFlight == 2

ClearedTimeline_KeepsEvents ==
    /\ analysis' = None
    /\ durationSec' = 0
    /\ SetEvents(events)

\* setAnalysis(null); setDurationSec(0); setEvents([])
ClearedTimeline ==
    /\ analysis' = None
    /\ durationSec' = 0
    /\ SetEvents(<<>>)

AnalysisEffect_NoCleanup(clip, roster) ==
    IF clip = None \/ clip[1] = ""
    THEN /\ UNCHANGED analysisReqs
         /\ ClearedTimeline
         /\ UNCHANGED analysisLoading
    ELSE /\ analysisReqs' = analysisReqs \cup {[clip |-> clip[1], roster |-> roster, alive |-> TRUE]}
         /\ analysisLoading' = TRUE
         /\ UNCHANGED <<analysis, durationSec>>
         /\ SetEvents(events)

\* The analysis effect, run for the clip and roster of the render that follows a
\* change of either: the cleanup of the previous run, then `if (!activeClipId)`
\* or the start of a request (setAnalysisLoading(true) runs before the await).
AnalysisEffect(clip, roster) ==
    LET cancelled == {[r EXCEPT !.alive = FALSE] : r \in analysisReqs}
    IN  IF clip = None \/ clip[1] = ""
        THEN /\ analysisReqs' = cancelled
             /\ ClearedTimeline
             /\ UNCHANGED analysisLoading
        ELSE /\ analysisReqs' = cancelled \cup {[clip |-> clip[1], roster |-> roster, alive |-> TRUE]}
             /\ analysisLoading' = TRUE
             /\ UNCHANGED <<analysis, durationSec>>
             /\ SetEvents(events)

\* The first render: the people effect and the analysis effect run.
Mount ==
    /\ life = "new"
    /\ life' = "mounted"
    /\ peopleReqs' = {[alive |-> TRUE]}
    /\ UNCHANGED <<env, dayId, activeClipId, people, selectedPersonId>>
    /\ AnalysisEffect(activeClipId, people)
    /\ Rerender

\* The cleanups of both effects.
Unmount ==
    /\ life = "mounted"
    /\ life' = "unmounted"
    /\ peopleReqs' = {[r EXCEPT !.alive = FALSE] : r \in peopleReqs}
    /\ analysisReqs' = {[r EXCEPT !.alive = FALSE] : r \in analysisReqs}
    /\ UNCHANGED <<env, dayId, activeClipId, people, selectedPersonId, durationSec, events,
                   analysis, analysisLoading, filtered, vt>>

\* The parent passes another activeClipId.
ClipChange(clip) ==
    /\ life = "mounted"
    /\ clip # activeClipId
    /\ Cardinality(analysisReqs) < MaxInFlight
    /\ activeClipId' = clip
    /\ UNCHANGED <<env, life, dayId, people, selectedPersonId, peopleReqs>>
    /\ AnalysisEffect(clip, people)
    /\ Rerender

\* The parent passes another dayId: the people effect runs again.
DayChange(day) ==
    /\ life = "mounted"
    /\ day # dayId
    /\ Cardinality(peopleReqs) < MaxInFlight
    /\ dayId' = day
    /\ peopleReqs' = {[r EXCEPT !.alive = FALSE] : r \in peopleReqs} \cup {[alive |-> TRUE]}
    /\ UNCHANGED <<env, life, activeClipId, people, selectedPersonId, durationSec,
                   analysis, analysisLoading, analysisReqs>>
    /\ SetEvents(events)
    /\ Rerender

\* What getAllPeople resolves to when the backend answers with the flag ok:
\* the roster it serves, or [] (`if (!res.data.ok) return []`).
getAllPeople(ok) == IF ok THEN serverPeople ELSE <<>>

PeopleResolve_KeepsSelection(r, ok) ==
    /\ r \in peopleReqs
    /\ r.alive => Cardinality(analysisReqs) < MaxInFlight
    /\ peopleReqs' = peopleReqs \ {r}
    /\ IF r.alive
       THEN /\ people' = getAllPeople(ok)
            /\ UNCHANGED selectedPersonId
            /\ AnalysisEffect(activeClipId, people')
       ELSE /\ UNCHANGED <<people, selectedPersonId, durationSec, analysis,
                         analysisLoading, analysisReqs>>
            /\ SetEvents(events)
    /\ UNCHANGED <<env, life, dayId, activeClipId>>
    /\ Rerender

\* getAllPeople resolves: setPeople, setSelectedPersonId(null); the new people
\* array then runs the analysis effect again.
PeopleResolve(r, ok) ==
    /\ r \in peopleReqs
    /\ r.alive => Cardinality(analysisReqs) < MaxInFlight
    /\ peopleReqs' = peopleReqs \ {r}
    /\ IF r.alive
       THEN /\ people' = getAllPeople(ok)
            /\ selectedPersonId' = None
            /\ AnalysisEffect(activeClipId, people')
       ELSE /\ UNCHANGED <<people, selectedPersonId, durationSec, analysis,
                         analysisLoading, analysisReqs>>
            /\ SetEvents(events)
    /\ UNCHANGED <<env, life, dayId, activeClipId>>
    /\ Rerender

\* getAllPeople rejects: the catch only logs.
PeopleReject(r) ==
    /\ r \in peopleReqs
    /\ peopleReqs' = peopleReqs \ {r}
    /\ UNCHANGED <<env, life, dayId, activeClipId, people, selectedPersonId, durationSec,
                   events, analysis, analysisLoading, analysisReqs, filtered, vt>>

AnalysisResolve_Appends(r) ==
    /\ r \in analysisReqs
    /\ analysisReqs' = analysisReqs \ {r}
    /\ LET res == server[r.clip]
       IN  IF ~r.alive
           THEN /\ UNCHANGED <<analysis, durationSec, selectedPersonId, analysisLoading>>
                /\ SetEvents(events)
           ELSE IF res.kind # "ok"
           THEN /\ UNCHANGED selectedPersonId
                /\ ClearedTimeline
                /\ analysisLoading' = FALSE
           ELSE IF BuildRaises(res.analysis)
           THEN \* setAnalysis(a), then the catch block
                /\ UNCHANGED selectedPersonId
                /\ ClearedTimeline
                /\ analysisLoading' = FALSE
           ELSE LET built == buildEventsFromAnalysis(res.analysis, r.roster)
                IN  /\ analysis' = Some(res.analysis)
                    /\ durationSec' = built.safeDuration
                    /\ selectedPersonId' = None
                    /\ SetEvents(events \o built.out)
                    /\ analysisLoading' = FALSE
    /\ UNCHANGED <<env, life, dayId, activeClipId, people, peopleReqs>>
    /\ Rerender

\* The response to a request arrives: the body of the async block after its await.
AnalysisResolve(r) ==
    /\ r \in analysisReqs
    /\ analysisReqs' = analysisReqs \ {r}
    /\ LET res == server[r.clip]
       IN  IF ~r.alive
           THEN /\ UNCHANGED <<analysis, durationSec, selectedPersonId, analysisLoading>>
                /\ SetEvents(events)
           ELSE IF res.kind # "ok"
           THEN /\ UNCHANGED selectedPersonId
                /\ ClearedTimeline
                /\ analysisLoading' = FALSE
           ELSE IF BuildRaises(res.analysis)
           THEN \* setAnalysis(a), then the catch block
                /\ UNCHANGED selectedPersonId
                /\ ClearedTimeline
                /\ analysisLoading' = FALSE
           ELSE LET built == buildEventsFromAnalysis(res.analysis, r.roster)
                IN  /\ analysis' = Some(res.analysis)
                    /\ durationSec' = built.safeDuration
                    /\ selectedPersonId' = None
                    /\ SetEvents(built.out)
                    /\ analysisLoading' = FALSE
    /\ UNCHANGED <<env, life, dayId, activeClipId, people, peopleReqs>>
    /\ Rerender

\* onPersonClick of a roster card
PersonClick(id) ==
    /\ life = "mounted"
    /\ \E k \in DOMAIN people : people[k].id = id
    /\ selectedPersonId' = Some(id)
    /\ UNCHANGED <<env, life, dayId, activeClipId, people, durationSec, analysis,
                   analysisLoading, peopleReqs, analysisReqs>>
    /\ SetEvents(events)
    /\ Rerender

ShowAll_ClearsTimeline ==
    /\ life = "mounted"
    /\ selectedPersonId' = None
    /\ UNCHANGED <<env, life, dayId, activeClipId, people, analysisLoading, peopleReqs,
                   analysisReqs>>
    /\ ClearedTimeline
    /\ Rerender

\* onShowAll
ShowAll ==
    /\ life = "mounted"
    /\ selectedPersonId' = None
    /\ UNCHANGED <<env, life, dayId, activeClipId, people, durationSec, analysis,
                   analysisLoading, peopleReqs, analysisReqs>>
    /\ SetEvents(events)
    /\ Rerender

(***************************************************************************)
(* Inputs                                                                  *)
(***************************************************************************)
\* most records (warnings, samples and the people they list) of one payload
MaxRecords == 4

MaxNameLen == 2

MaxRoster == 2

\* largest explicit duration of the layout inputs, in seconds
MaxLayoutDur == 3

ClipIds == {"c1", "c2"}

SeqsUpTo(S, n) == UNION {[1..k -> S] : k \in 0..n}

RECURSIVE SeqSum(_)
SeqSum(s) == IF s = <<>> THEN 0 ELSE Head(s) + SeqSum(Tail(s))

OkResponse(a) == [kind |-> "ok", analysis |-> a]

Payload(d, ws, tl) == [video |-> [duration_sec |-> d], warnings |-> ws, timeline |-> tl]

\* start_sec 1/Den floors to 0; 30 lies beyond every duration below
WarningPool ==
    [type : {"fall"}, severity : {"low", "medium", "high"},
     start_sec : {Some(1), Some(Num(30))}, person : {<<"A">>}]

PersonPool == [name : {<<"A">>, <<>>}, action : {"seated"}, confidence : {Some(1)}]

\* 20 and 10 + 1/Den floor to multiples of STEP, 15 does not
SampleTimes == {Some(Num(20)), Some(Num(10) + 1), Some(Num(15))}

DurationPool == {None, Some(-Num(1)), Some(0), Some(Num(10) + 1)}

\* the numbers of people of the samples of a timeline of at most n records
TimelineShapes(n) == {sh \in SeqsUpTo(0..n, n) : Len(sh) + SeqSum(sh) <= n}

\* the timeline of shape sh with the given sample times and people, listed flat
Timeline(sh, times, flat) ==
    [k \in DOMAIN sh |->
        [t      |-> times[k],
         people |-> SubSeq(flat, SeqSum(SubSeq(sh, 1, k - 1)) + 1,
                                 SeqSum(SubSeq(sh, 1, k)))]]

BuildRoster == <<[id |-> "1", name |-> <<"A">>]>>

NamePool == SeqsUpTo({" ", "a", "A"}, MaxNameLen)

ResolveRosters ==
    {[k \in DOMAIN names |-> [id |-> <<"1", "2", "3", "4">>[k], name |-> names[k]]] :
       names \in SeqsUpTo({<<"a">>, <<"A">>, <<" ", "a">>, <<"a", " ">>, <<" ">>}, MaxRoster)}

WarningOf(n) == [type |-> "fall", severity |-> "high", start_sec |-> Some(Num(30)), person |-> n]

LayoutDurations == {None} \cup {Some(x) : x \in 0..Num(MaxLayoutDur)}

LayoutConfigs ==
    [labelEverySec     : {None, Some(Num(2) + 1), Some(0)},
     minorTickEverySec : {None, Some(Num(1))},
     minHeightPx       : {None, Some(0), Some(Num(10))},
     pxPerMinute       : {None, Some(Num(600)), Some(-Num(60))},
     padTopPx          : {None, Some(0), Some(Num(8))},
     padBottomPx       : {None, Some(0), Some(Num(8))}]

(***************************************************************************)
(* Specifications                                                          *)
(***************************************************************************)
\* The drawer with its roster loaded, showing clip c1, the analysis request of
\* that clip in flight; the backend will answer with the payload a.
Requested(a, roster, props) ==
    /\ server = [c \in ClipIds |-> OkResponse(a)]
    /\ serverPeople = roster
    /\ life = "mounted"
    /\ dayId = "d1"
    /\ peopleReqs = {}
    /\ activeClipId = Some("c1")
    /\ people = roster
    /\ selectedPersonId = None
    /\ durationSec = 0
    /\ events = <<>>
    /\ analysis = None
    /\ analysisLoading = TRUE
    /\ analysisReqs = {[clip |-> "c1", roster |-> roster, alive |-> TRUE]}
    /\ filtered = <<>>
    /\ vtProps = props
    /\ vt = VerticalTimeline(0, <<>>, props)

PersonIds == {"1", "2", "3", "4"}

ViewNext ==
    \/ \E r \in analysisReqs : AnalysisResolve(r)
    \/ \E id \in PersonIds : PersonClick(id)
    \/ ShowAll

\* every payload of at most MaxRecords records over the pools
BuildInit ==
    \E d \in DurationPool, w \in 0..MaxRecords :
        \E ws \in [1..w -> WarningPool], sh \in TimelineShapes(MaxRecords - w) :
            \E times \in [DOMAIN sh -> SampleTimes], flat \in [1..SeqSum(sh) -> PersonPool] :
                Requested(Payload(d, ws, Timeline(sh, times, flat)), BuildRoster, DrawerVtProps)

BuildSpec == BuildInit /\ [][ViewNext]_vars

\* a sample at 20 s that lists the one person n
SampleOf(n) ==
    [t |-> Some(Num(20)), people |-> <<[name |-> n, action |-> "seated", confidence |-> None]>>]

\* one warning, with or without an observation of the same name, every name
\* against every roster
ResolveInit ==
    \E n \in NamePool, roster \in ResolveRosters :
        \E tl \in {<<>>, <<SampleOf(n)>>} :
            Requested(Payload(None, <<WarningOf(n)>>, tl), roster, DrawerVtProps)

ResolveSpec == ResolveInit /\ [][ViewNext]_vars

\* every configuration against every duration, with and without an event
LayoutInit ==
    \E d \in LayoutDurations, ws \in {<<>>, <<WarningOf(<<"A">>)>>}, props \in LayoutConfigs :
        Requested(Payload(d, ws, <<>>), BuildRoster, props)

LayoutSpec == LayoutInit /\ [][ViewNext]_vars

\* Payloads as the backend's JSON may be: records that lack fields, null in the
\* place of a record, and a payload that is no object.  A field that is absent
\* is None ("" for a name or an action, Undefined for a type or a severity); of
\* a sample without people, as of a payload without warnings or timeline,
\* Array.isArray is false and the code reads [], here <<>>.
MaxOddRecords == 3

OddWarningPool ==
    {Null,
     [type |-> Undefined, severity |-> Undefined, start_sec |-> None, person |-> <<>>],
     [type |-> "fall", severity |-> "high", start_sec |-> Some(-Num(2) - 1), person |-> <<"A">>],
     [type |-> "fall", severity |-> "low", start_sec |-> Some(Num(3) + 1), person |-> <<"B">>]}

OddPersonPool ==
    {Null,
     [name |-> <<>>, action |-> "", confidence |-> None],
     [name |-> <<"A">>, action |-> "seated", confidence |-> Some(1)]}

\* no t at all, 10 + 1/Den (kept) and 5 (dropped)
OddSampleTimes == {None, Some(Num(10) + 1), Some(Num(5))}

OddDurations == {None, Some(Num(5))}

WithNulls(seq, nulls) == [k \in DOMAIN seq |-> IF nulls[k] THEN Null ELSE seq[k]]

OddInit ==
    \/ \E a \in {Null, Scalar} : Requested(a, BuildRoster, DrawerVtProps)
    \/ \E d \in OddDurations, w \in 0..MaxOddRecords :
          \E ws \in [1..w -> OddWarningPool], sh \in TimelineShapes(MaxOddRecords - w) :
            \E times \in [DOMAIN sh -> OddSampleTimes], nulls \in [DOMAIN sh -> BOOLEAN],
               flat \in [1..SeqSum(sh) -> OddPersonPool] :
                Requested(Payload(d, ws, WithNulls(Timeline(sh, times, flat), nulls)),
                          BuildRoster, DrawerVtProps)

OddSpec == OddInit /\ [][ViewNext]_vars

\* tick steps: absent, negative, 0, a fraction below 1, whole, and fractional
TickSteps ==
    {None, Some(-Num(2)), Some(0), Some(1), Some(Num(1)), Some(Num(2)), Some(Num(2) + 1)}

\* every pair of tick steps against every duration, the other props as the
\* drawer passes them
TickInit ==
    \E d \in LayoutDurations, ws \in {<<>>, <<WarningOf(<<"A">>)>>},
       l \in TickSteps, m \in TickSteps :
        Requested(Payload(d, ws, <<>>), BuildRoster,
                  [DrawerVtProps EXCEPT !.labelEverySec = l, !.minorTickEverySec = m])

TickSpec == TickInit /\ [][ViewNext]_vars

\* The drawer from its construction on, under every schedule of prop changes,
\* clicks and responses.
DrawerRoster == <<[id |-> "1", name |-> <<"A">>], [id |-> "2", name |-> <<"A", " ">>]>>

DrawerPayloadA ==
    Payload(Some(Num(10) + 1), <<WarningOf(<<"A">>)>>,
            <<[t |-> Some(Num(20)),
               people |-> <<[name |-> <<>>, action |-> "seated", confidence |-> Some(1)]>>]>>)

DrawerPayloadB ==
    Payload(None, <<>>,
            <<[t |-> Some(Num(10)),
               people |-> <<[name |-> <<"A">>, action |-> "", confidence |-> None]>>]>>)

DrawerServers ==
    {[c \in ClipIds |-> IF c = "c1" THEN OkResponse(DrawerPayloadA) ELSE other] :
       other \in {OkResponse(DrawerPayloadB), [kind |-> "error"], [kind |-> "throw"]}}

DayIds == {"d1", "d2"}

Init ==
    /\ server \in DrawerServers
    /\ serverPeople = DrawerRoster
    /\ life = "new"
    /\ dayId = "d1"
    /\ activeClipId \in {None, Some("c1")}
    /\ people = <<>>
    /\ selectedPersonId = None
    /\ durationSec = 0
    /\ events = <<>>
    /\ analysis = None
    /\ analysisLoading = FALSE
    /\ peopleReqs = {}
    /\ analysisReqs = {}
    /\ filtered = <<>>
    /\ vtProps = DrawerVtProps
    /\ vt = VerticalTimeline(0, <<>>, DrawerVtProps)

Next ==
    \/ Mount
    \/ Unmount
    \/ \E clip \in {None} \cup {Some(c) : c \in ClipIds} : ClipChange(clip)
    \/ \E day \in DayIds : DayChange(day)
    \/ \E r \in peopleReqs, ok \in BOOLEAN : PeopleResolve(r, ok)
    \/ \E r \in peopleReqs : PeopleReject(r)
    \/ \E r \in analysisReqs : AnalysisResolve(r)
    \/ \E id \in PersonIds : PersonClick(id)
    \/ ShowAll

Spec == Init /\ [][Next]_vars

(***************************************************************************)
(* Properties of one build (BuildSpec, ResolveSpec, LayoutSpec: the roster *)
(* is loaded once, so the held events are those built from `analysis`      *)
(* with `people`).                                                         *)
(***************************************************************************)
Built == analysis # None

\* C1, as claimed: every event of a build has 0 <= atSec <= duration, the
\* resolved duration of that build, a resolved duration of 0 included.
C1_AtSecWithinDuration ==
    \A k \in DOMAIN events : 0 <= events[k].atSec /\ events[k].atSec <= durationSec

\* C1, amended: every event of a build has 0 <= atSec <= max(1, duration).
C1_AtSecWithinDurationOrOne ==
    \A k \in DOMAIN events :
        0 <= events[k].atSec /\ events[k].atSec <= Max(Num(1), durationSec)

\* a build that resolved the duration 0 and clamped a later warning
C1_Witness ==
    /\ Built
    /\ durationSec = 0
    /\ \E k \in DOMAIN events : events[k].atSec = Num(1)
    /\ \E i \in DOMAIN analysis[1].warnings : analysis[1].warnings[i].start_sec = Some(Num(30))

\* C2: within one build no two events of the list share an id.
C2_UniqueIds ==
    \A i, j \in DOMAIN events : i # j => events[i].id # events[j].id

ClaimedRank(s) == CASE s = "high" -> 3 [] s = "medium" -> 2 [] OTHER -> 1

\* C3: in the built list atSec never decreases; at equal atSec a warning never
\* follows an observation; two warnings at equal atSec are in non-increasing
\* severity rank (high 3, medium 2, anything else 1).
C3_Ordered ==
    \A k \in 1..(Len(events) - 1) :
        LET e1 == events[k]
            e2 == events[k + 1]
        IN  /\ e1.atSec <= e2.atSec
            /\ e1.atSec = e2.atSec => ~(e1.variant = "info" /\ e2.variant = "warn")
            /\ (e1.atSec = e2.atSec /\ e1.variant = "warn" /\ e2.variant = "warn")
                   => ClaimedRank(e1.severity) >= ClaimedRank(e2.severity)

\* a low warning listed before a high one, and an observation, all at one time
C3_Witness ==
    /\ Built
    /\ Len(events) = 3
    /\ events[1].atSec = events[3].atSec
    /\ Len(analysis[1].warnings) = 2
    /\ analysis[1].warnings[1].severity = "low"
    /\ events[1].severity = "high"
    /\ events[2].severity = "low"
    /\ events[3].variant = "info"

\* the k-th smallest element of a set of indices
KthOf(I, k) == CHOOSE i \in I : Cardinality({j \in I : j <= i}) = k

\* f is the subsequence of evs at the indices I
IsSubseqAt(f, evs, I) ==
    /\ Len(f) = Cardinality(I)
    /\ \A k \in 1..Len(f) : f[k] = evs[KthOf(I, k)]

EventIds == PersonIds \cup {UNKNOWN_ID}

\* C5: with no selection the filtered list is the event list; with identity p
\* selected it is the subsequence of the events of p, in the list's order.
C5_FilterExact ==
    /\ filteredEvents(events, None) = events
    /\ \A p \in EventIds :
          IsSubseqAt(filteredEvents(events, Some(p)), events,
                     {i \in DOMAIN events : events[i].personId = p})
    /\ selectedPersonId = None => filtered = events
    /\ selectedPersonId # None =>
          IsSubseqAt(filtered, events,
                     {i \in DOMAIN events : events[i].personId = selectedPersonId[1]})

\* person 1 selected among three events, the second of them another person's
C5_Witness ==
    /\ Built
    /\ selectedPersonId = Some("1")
    /\ Len(events) = 3
    /\ events[2].personId = UNKNOWN_ID
    /\ Len(filtered) = 2

\* C6: for the duration and configuration of a render, secToY never decreases
\* over the times of [0, duration].
C6_SecToYMonotone ==
    \A t1, t2 \in 0..vt.safeDuration :
        t1 < t2 =>
            RatLeq(secToY(t1, vt.safeDuration, vt.padTopPx, vt.padBottomPx, vt.heightPx),
                   secToY(t2, vt.safeDuration, vt.padTopPx, vt.padBottomPx, vt.heightPx))

\* a render whose paddings exceed its height, over a duration of 2 s or more,
\* with its labels at increasing offsets
C6_Witness ==
    /\ Built
    /\ vt.safeDuration >= Num(2)
    /\ vt.heightPx < vt.padTopPx + vt.padBottomPx
    /\ Len(vt.labels) >= 2
    /\ ~RatLeq(vt.labels[2].y, vt.labels[1].y)

\* the name the only warning of a ResolveSpec payload passes to toPersonId
ResolvedName ==
    LET person == analysis[1].warnings[1].person
    IN  IF person = <<>> THEN UnknownName ELSE person

\* C7, as claimed: the event's identity is the id of a roster entry whose
\* display name, untrimmed, equals the trimmed input, and the unknown sentinel
\* when no roster entry has that display name.
C7_RosterNameAsIs ==
    Built =>
        LET hits == {k \in DOMAIN people : people[k].name = Trim(ResolvedName)}
        IN  IF hits = {} THEN events[1].personId = UNKNOWN_ID
            ELSE \E k \in hits : events[1].personId = people[k].id

\* C7, amended: the event's identity is the id of a roster entry whose trimmed
\* display name equals the trimmed input, and the unknown sentinel when no
\* roster entry's trimmed display name equals it (so always with an empty roster).
C7_RosterNameTrimmed ==
    Built =>
        LET hits == {k \in DOMAIN people : Trim(people[k].name) = Trim(ResolvedName)}
        IN  /\ IF hits = {} THEN events[1].personId = UNKNOWN_ID
               ELSE \E k \in hits : events[1].personId = people[k].id
            /\ people = <<>> => events[1].personId = UNKNOWN_ID

\* "a " in the payload resolved against the roster entry "a", past an entry "A"
C7_Witness ==
    /\ Built
    /\ analysis[1].warnings[1].person = <<"a", " ">>
    /\ people = <<[id |-> "1", name |-> <<"A">>], [id |-> "2", name |-> <<"a">>]>>
    /\ events[1].personId = "2"

\* the id of an observation event of floored time t and name nm
ActId(t, nm) == ActPrefix \o NumToStr(t) \o <<"-">> \o nm

ListedName(pp) == IF pp.name = <<>> THEN UnknownName ELSE pp.name

\* Every observation event comes from a sample whose position is in kept, one
\* event per person the samples at those positions list.
ObservationsAre(kept) ==
    LET tl == analysis[1].timeline
        listed == {<<k, j>> \in (DOMAIN tl) \X (1..MaxRecords + 1) : j <= Len(tl[k].people)}
        info == {i \in DOMAIN events : events[i].variant = "info"}
    IN  /\ Cardinality(info) = Cardinality({kj \in listed : kj[1] \in kept})
        /\ \A kj \in listed :
              LET id == ActId(Floor(tl[kj[1]].t[1]), ListedName(tl[kj[1]].people[kj[2]]))
              IN  Cardinality({i \in info : events[i].id = id})
                    = Cardinality({x \in listed :
                          /\ x[1] \in kept
                          /\ ActId(Floor(tl[x[1]].t[1]), ListedName(tl[x[1]].people[x[2]])) = id})

IsMultipleOfStep(t) == \E n \in -100..100 : t = n * Num(STEP)

FloorIsMultipleOfStep(t) == IsMultipleOfStep(Floor(t))

\* C8, as claimed: a sample contributes one event per listed person if its time
\* is an exact multiple of 10, and no event otherwise.
C8_KeptIffMultiple ==
    Built => ObservationsAre({k \in DOMAIN analysis[1].timeline :
                                 IsMultipleOfStep(analysis[1].timeline[k].t[1])})

\* C8, amended: a sample contributes one event per listed person if the floor
\* of its time is an exact multiple of 10, and no event otherwise.
C8_KeptIffFloorMultiple ==
    Built => ObservationsAre({k \in DOMAIN analysis[1].timeline :
                                 FloorIsMultipleOfStep(analysis[1].timeline[k].t[1])})

\* a sample at 15 dropped beside a sample at 20 that gave its event
C8_Witness ==
    /\ Built
    /\ Len(analysis[1].timeline) = 2
    /\ analysis[1].timeline[1].t = Some(Num(15))
    /\ Len(analysis[1].timeline[1].people) = 1
    /\ analysis[1].timeline[2].t = Some(Num(20))
    /\ Len(analysis[1].timeline[2].people) = 1
    /\ Len(events) = 1
    /\ events[1].id = ActId(Num(20), <<"A">>)

\* the duration the claim describes, before any flooring or clamping
ClaimedDuration(a) ==
    IF a.video.duration_sec # None THEN a.video.duration_sec[1]
    ELSE IF a.timeline = <<>> THEN 0
    ELSE LET ts == {a.timeline[k].t[1] : k \in DOMAIN a.timeline}
         IN  (CHOOSE m \in ts : \A t \in ts : t <= m) + Num(1)

IsWhole(x) == x % Den = 0

EmptyPayload == Payload(None, <<>>, <<>>)

MinHeightProp == OrElse(vtProps.minHeightPx, Num(DefaultMinHeightPx))

\* Math.round(pxPerMinute / 60): the height one second asks for
OneSecondHeight == RoundRat(OrElse(vtProps.pxPerMinute, Num(DefaultPxPerMinute)), 60 * Den)

\* C10, as claimed: for the empty payload the duration is 0, the list is empty
\* and the layout height is minHeightPx, whatever the configuration.
C10_EmptyHeightIsMin ==
    (Built /\ analysis[1] = EmptyPayload) =>
        /\ durationSec = 0
        /\ events = <<>>
        /\ vt.heightPx = MinHeightProp

\* C10, amended: for the empty payload the duration is 0, the list is empty and
\* the layout height is max(minHeightPx, round(pxPerMinute / 60)): minHeightPx
\* in every configuration where minHeightPx >= round(pxPerMinute / 60).
C10_EmptyHeightIsMinOrOneSecond ==
    (Built /\ analysis[1] = EmptyPayload) =>
        /\ durationSec = 0
        /\ events = <<>>
        /\ vt.heightPx >= MinHeightProp
        /\ MinHeightProp >= OneSecondHeight => vt.heightPx = MinHeightProp
        /\ MinHeightProp < OneSecondHeight => vt.heightPx = OneSecondHeight

\* the empty payload rendered at the default minimum height
C10_Witness ==
    /\ Built
    /\ analysis[1] = EmptyPayload
    /\ vtProps.minHeightPx = None
    /\ vtProps.pxPerMinute = None
    /\ vt.heightPx = Num(DefaultMinHeightPx)
    /\ vt.events = <<>>

\* C18: events that have the same atSec, the same kind and the same severity
\* rank appear in their insertion order: warnings in payload order, then
\* observations in sample order and, within a sample, in people order.
C18_TiesInInsertionOrder ==
    Built =>
        LET inserted == OutBeforeSort(analysis[1], durationSec, people)
            Tied(e, f) == /\ e.atSec = f.atSec
                          /\ e.variant = f.variant
                          /\ ClaimedRank(e.severity) = ClaimedRank(f.severity)
        IN  \A k \in DOMAIN events :
                SelectSeq(events, LAMBDA f : Tied(events[k], f))
                  = SelectSeq(inserted, LAMBDA f : Tied(events[k], f))

\* two low warnings of one time, the later one after a high one in the payload,
\* in payload order behind it
C18_Witness ==
    /\ Built
    /\ Len(analysis[1].warnings) = 3
    /\ analysis[1].warnings[1].severity = "low"
    /\ analysis[1].warnings[2].severity = "high"
    /\ analysis[1].warnings[3].severity = "low"
    /\ Len(events) = 3
    /\ events[1].atSec = events[3].atSec
    /\ events[1].severity = "high"
    /\ events[2].id[Len(WarnPrefix) + 1] = "0"
    /\ events[3].id[Len(WarnPrefix) + 1] = "2"

\* a roster entry has this name, both trimmed
InRoster(n) == \E r \in DOMAIN people : Trim(people[r].name) = Trim(n)

\* the (sample, person) pairs of the retained samples of the built payload
Retained ==
    LET tl == analysis[1].timeline
    IN  {kj \in (DOMAIN tl) \X (1..MaxRecords + 1) :
            /\ kj[2] <= Len(tl[kj[1]].people)
            /\ ((tl[kj[1]].t[1] \div Den) * Den) % (STEP * Den) = 0}

\* C19: the output holds exactly one event per warning record and exactly one
\* per (retained sample, listed person) pair, so that its length is |warnings|
\* plus the sum of |people| over the retained samples; a name that matches no
\* roster entry still yields its event, with the unknown identity.
C19_NoEventLostOrInvented ==
    Built =>
        LET a == analysis[1]
            unnamedWarnings == {i \in DOMAIN a.warnings :
                                  ~InRoster(IF a.warnings[i].person = <<>> THEN UnknownName
                                            ELSE a.warnings[i].person)}
            unnamedPairs == {kj \in Retained :
                               ~InRoster(ListedName(a.timeline[kj[1]].people[kj[2]]))}
        IN  /\ Len(events) = Len(a.warnings) + Cardinality(Retained)
            /\ Cardinality({k \in DOMAIN events : events[k].variant = "warn"})
                 = Len(a.warnings)
            /\ Cardinality({k \in DOMAIN events : events[k].variant = "info"})
                 = Cardinality(Retained)
            /\ Cardinality({k \in DOMAIN events : events[k].personId = UNKNOWN_ID})
                 = Cardinality(unnamedWarnings) + Cardinality(unnamedPairs)
            /\ \A k \in DOMAIN events :
                  events[k].personId = UNKNOWN_ID <=> ~InRoster(events[k].label[2])

\* a warning, a retained sample with a nameless person and a dropped sample with
\* a person of the roster: two events, the observation with the unknown identity
C19_Witness ==
    /\ Built
    /\ Len(analysis[1].warnings) = 1
    /\ Len(analysis[1].timeline) = 2
    /\ analysis[1].timeline[1].t = Some(Num(20))
    /\ Len(analysis[1].timeline[1].people) = 1
    /\ analysis[1].timeline[1].people[1].name = <<>>
    /\ analysis[1].timeline[2].t = Some(Num(15))
    /\ Len(events) = 2
    /\ \E k \in DOMAIN events :
          events[k].variant = "info" /\ events[k].personId = UNKNOWN_ID

\* C25: when several roster entries have the same trimmed display name, that
\* name resolves to the id of the last of them in roster order, and so for
\* every event of the build: one name never has two identities.
C25_LastEntryWins ==
    Built =>
        /\ \A k \in DOMAIN events :
              LET hits == {r \in DOMAIN people :
                             Trim(people[r].name) = Trim(events[k].label[2])}
              IN  hits # {} =>
                    \E r \in hits : /\ \A q \in hits : q <= r
                                     /\ events[k].personId = people[r].id
        /\ \A j, k \in DOMAIN events :
              events[j].label[2] = events[k].label[2] => events[j].personId = events[k].personId

\* the warning and the observation of "a" against the roster "a", " a": both
\* resolve to the second entry
C25_Witness ==
    /\ Built
    /\ people = <<[id |-> "1", name |-> <<"a">>], [id |-> "2", name |-> <<" ", "a">>]>>
    /\ Len(events) = 2
    /\ events[1].label[2] = <<"a">> /\ events[1].personId = "2"
    /\ events[2].label[2] = <<"a">> /\ events[2].personId = "2"

(***************************************************************************)
(* Properties of the response to one request (OddSpec: payloads with       *)
(* absent fields, null records, and payloads that are no object).          *)
(***************************************************************************)
\* the one request has been answered and the answer handled
Applied == analysisReqs = {}

\* the payload the backend answers with
AnsweredPayload == server["c1"].analysis

IsObject(a) == a # Null /\ a # Scalar

\* C11, as claimed: of a payload that is an object, whatever records are null
\* or lack fields, the build completes (the drawer holds the payload, not the
\* cleared timeline of a failure) and every event has its defaults: a person
\* name, an action, and time 0 for a warning without start_sec.
C11_RecordsNeverFail ==
    Applied /\ IsObject(AnsweredPayload) =>
        /\ analysis = Some(AnsweredPayload)
        /\ ~analysisLoading
        /\ \A k \in DOMAIN events :
              /\ events[k].label[2] # <<>>
              /\ events[k].variant = "info" => events[k].label[3] # ""
        /\ Cardinality({k \in DOMAIN events :
                           events[k].variant = "warn" /\ events[k].atSec = 0})
             >= Cardinality({i \in DOMAIN AnsweredPayload.warnings :
                               AnsweredPayload.warnings[i].start_sec = None})

\* C12, as claimed: a payload that is no object (null, a number, a string) is
\* rejected, and the drawer then holds the empty timeline: no events, duration
\* 0, no analysis, not loading.
C12_NonObjectRejected ==
    Applied /\ ~IsObject(AnsweredPayload) =>
        /\ events = <<>>
        /\ durationSec = 0
        /\ analysis = None
        /\ ~analysisLoading

\* clamp(floor(x), 0, max(1, duration)), as the specification writes it
ClaimedTime(x, duration) ==
    LET f == (x \div Den) * Den
        hi == IF duration >= Den THEN duration ELSE Den
    IN  IF f < 0 THEN 0 ELSE IF f > hi THEN hi ELSE f

\* the (sample, person) pairs of the samples the build retains: those whose
\* floored time (0 without t) is a multiple of the step
RetainedPairs(a) ==
    {kj \in (DOMAIN a.timeline) \X (1..MaxRecords + 1) :
        /\ kj[2] <= Len(a.timeline[kj[1]].people)
        /\ ((OrElse(a.timeline[kj[1]].t, 0) \div Den) * Den) % (STEP * Den) = 0}

\* C17: every warning event has atSec = clamp(floor(start_sec), 0, max(1,
\* duration)), a missing start_sec counting as 0, and every observation event
\* has atSec = clamp(floor(t), 0, max(1, duration)), duration being the
\* resolved duration of the same build.  Warning i is the event whose id
\* starts with warn-i; the observation events are counted per time.
C17_EventTimes ==
    (Built /\ IsObject(analysis[1])) =>
        LET a == analysis[1]
            warn == {k \in DOMAIN events : events[k].variant = "warn"}
            info == {k \in DOMAIN events : events[k].variant = "info"}
        IN  /\ Cardinality(warn) = Len(a.warnings)
            /\ \A i \in DOMAIN a.warnings :
                  \E k \in warn :
                     /\ events[k].id[Len(WarnPrefix) + 1] = DigitChar(i - 1)
                     /\ events[k].atSec = ClaimedTime(OrElse(a.warnings[i].start_sec, 0),
                                                      durationSec)
            /\ \A v \in {events[k].atSec : k \in info}
                       \cup {ClaimedTime(OrElse(a.timeline[kj[1]].t, 0), durationSec) :
                               kj \in RetainedPairs(a)} :
                  Cardinality({k \in info : events[k].atSec = v})
                    = Cardinality({kj \in RetainedPairs(a) :
                          ClaimedTime(OrElse(a.timeline[kj[1]].t, 0), durationSec) = v})

\* a warning without start_sec at 0, and an observation of 10 + 1/Den floored
\* and clamped to the duration 5
C17_Witness ==
    /\ Built
    /\ IsObject(analysis[1])
    /\ durationSec = Num(5)
    /\ Len(analysis[1].warnings) = 1
    /\ analysis[1].warnings[1].start_sec = None
    /\ Len(analysis[1].timeline) = 1
    /\ analysis[1].timeline[1].t = Some(Num(10) + 1)
    /\ Len(events) = 2
    /\ events[1].variant = "warn" /\ events[1].atSec = 0
    /\ events[2].variant = "info" /\ events[2].atSec = Num(5)

(***************************************************************************)
(* Properties of the layout (LayoutSpec)                                   *)
(***************************************************************************)
\* the times of the major ticks on the screen
LabelTimes == [k \in DOMAIN vt.labels |-> vt.labels[k].t]

\* C13, as claimed: with labelEverySec <= 0 the major ticks are those of the
\* default labelEverySec = 60, and with pxPerMinute <= 0 the height is that of
\* the default pxPerMinute = 60.
C13_InvalidFallsBackToDefault ==
    /\ (vtProps.labelEverySec # None /\ vtProps.labelEverySec[1] <= 0)
         => LabelTimes = VtLabels(Num(DefaultLabelEverySec), vt.safeDuration)
    /\ (vtProps.pxPerMinute # None /\ vtProps.pxPerMinute[1] <= 0)
         => vt.heightPx = VtHeightPx(vt.safeDuration, MinHeightProp, Num(DefaultPxPerMinute))

\* everything VerticalTimeline placed: the major and minor ticks and the events
Placed ==
    {[t |-> vt.labels[k].t, y |-> vt.labels[k].y] : k \in DOMAIN vt.labels}
      \cup {[t |-> vt.minorTicks[k].t, y |-> vt.minorTicks[k].y] : k \in DOMAIN vt.minorTicks}
      \cup {[t |-> vt.events[k].ev.atSec, y |-> vt.events[k].y] : k \in DOMAIN vt.events}

\* the rational y is padTop + (clamp(t, 0, safeDuration) / safeDuration) * span
ProjectsOnto(p, span) ==
    LET c == IF p.t < 0 THEN 0 ELSE IF p.t > vt.safeDuration THEN vt.safeDuration ELSE p.t
    IN  p.y.num * vt.safeDuration = (vt.padTopPx * vt.safeDuration + c * span) * p.y.den

\* C20, as claimed: in every configuration, padTop + padBottom >= heightPx
\* included, secToY(t) = padTop + (clamp(t, 0, safeDuration) / safeDuration)
\* * (heightPx - padTop - padBottom).
C20_ProjectionAsClaimed ==
    \A p \in Placed : ProjectsOnto(p, vt.heightPx - vt.padTopPx - vt.padBottomPx)

\* C20, amended: secToY(t) = padTop + (clamp(t, 0, safeDuration) / safeDuration)
\* * max(1, heightPx - padTop - padBottom).
C20_ProjectionWithUsableFloor ==
    \A p \in Placed :
        LET span == vt.heightPx - vt.padTopPx - vt.padBottomPx
        IN  ProjectsOnto(p, IF span >= Den THEN span ELSE Den)

\* an event at the end of a timeline whose paddings exceed its height, placed
\* one pixel below padTop
C20_Witness ==
    /\ Built
    /\ vt.events # <<>>
    /\ vt.events[1].ev.atSec > 0
    /\ vt.padTopPx + vt.padBottomPx >= vt.heightPx
    /\ vt.events[1].y.num = (vt.padTopPx + Num(1)) * vt.events[1].y.den

(***************************************************************************)
(* Properties of the ticks (TickSpec)                                      *)
(***************************************************************************)
\* labelEverySec and minorTickEverySec as VerticalTimeline receives them
LabelEvery == OrElse(vtProps.labelEverySec, Num(DefaultLabelEverySec))

MinorEvery == vtProps.minorTickEverySec

MinorTimes == [k \in DOMAIN vt.minorTicks |-> vt.minorTicks[k].t]

\* the multiples of step (step # 0) in [0, hi]
MultiplesIn(step, hi) == {t \in 0..hi : \E n \in -hi..hi : t = n * step}

\* the sequence lists exactly the set, in increasing order
ListsInOrder(seq, S) ==
    /\ {seq[k] : k \in DOMAIN seq} = S
    /\ \A k \in DOMAIN seq : k > 1 => seq[k - 1] < seq[k]

\* floor, as the specification writes it
Whole(x) == (x \div Den) * Den

\* C21, as claimed: for labelEverySec >= 1 the labels are exactly the multiples
\* of labelEverySec in [0, safeDuration], increasing, then safeDuration if it
\* is no such multiple.
C21_LabelsAreMultiples ==
    LabelEvery >= Num(1) =>
        ListsInOrder(LabelTimes, MultiplesIn(LabelEvery, vt.safeDuration) \cup {vt.safeDuration})

\* C21, amended: for labelEverySec >= 1 the labels are exactly the multiples of
\* floor(labelEverySec) in [0, safeDuration], increasing, then safeDuration if
\* it is no such multiple; the list starts with 0, ends with safeDuration and
\* repeats no value.
C21_LabelsAreMultiplesOfFloor ==
    LabelEvery >= Num(1) =>
        /\ ListsInOrder(LabelTimes,
                        MultiplesIn(Whole(LabelEvery), vt.safeDuration) \cup {vt.safeDuration})
        /\ LabelTimes[1] = 0
        /\ LabelTimes[Len(LabelTimes)] = vt.safeDuration

\* labels every 2 s (labelEverySec 2 + 1/Den) of a 3 s timeline: 0, 2 and the end
C21_Witness ==
    /\ Built
    /\ vtProps.labelEverySec = Some(Num(2) + 1)
    /\ LabelTimes = <<0, Num(2), Num(3)>>

\* C22, as claimed: with minorTickEverySec configured the minor ticks on the
\* screen are exactly the multiples of minorTickEverySec in [0, safeDuration]
\* that are no multiples of labelEverySec; with it omitted, or 0, there is none.
C22_MinorTicksAreMultiples ==
    (LabelEvery >= Num(1) /\ (MinorEvery = None \/ MinorEvery[1] = 0 \/ MinorEvery[1] >= Num(1))) =>
        IF MinorEvery = None \/ MinorEvery[1] = 0 THEN vt.minorTicks = <<>>
        ELSE ListsInOrder(MinorTimes,
                 MultiplesIn(MinorEvery[1], vt.safeDuration)
                   \ MultiplesIn(LabelEvery, vt.safeDuration))

\* C22, amended: with minorTickEverySec >= 1 and labelEverySec >= 1 the minor
\* ticks on the screen are exactly the multiples of floor(minorTickEverySec) in
\* [0, safeDuration] that are no multiples of floor(labelEverySec); with
\* minorTickEverySec omitted, or 0, there is none.
C22_MinorTicksAreMultiplesOfFloor ==
    (LabelEvery >= Num(1) /\ (MinorEvery = None \/ MinorEvery[1] = 0 \/ MinorEvery[1] >= Num(1))) =>
        IF MinorEvery = None \/ MinorEvery[1] = 0 THEN vt.minorTicks = <<>>
        ELSE ListsInOrder(MinorTimes,
                 MultiplesIn(Whole(MinorEvery[1]), vt.safeDuration)
                   \ MultiplesIn(Whole(LabelEvery), vt.safeDuration))

\* minor ticks every second between labels every 2 s: only the odd seconds
C22_Witness ==
    /\ Built
    /\ vtProps.labelEverySec = Some(Num(2))
    /\ vtProps.minorTickEverySec = Some(Num(1))
    /\ MinorTimes = <<Num(1), Num(3)>>

\* C23, as claimed: no time is on the screen both as a minor tick and as a
\* label, the end label safeDuration included.
C23_MinorNeverOnLabel ==
    \A i \in DOMAIN vt.minorTicks, k \in DOMAIN vt.labels :
        vt.minorTicks[i].t # vt.labels[k].t

\* C24: for every labelEverySec and minorTickEverySec, 0, negative values and
\* fractions below 1 included, the label loop and the minor-tick loop finish
\* with at most safeDuration + 2 entries each.
C24_TickLoopsBounded ==
    /\ Len(vt.labels) * Den <= vt.safeDuration + Num(2)
    /\ Len(VtMinorTicks(MinorEvery, vt.safeDuration)) * Den <= vt.safeDuration + Num(2)

\* a label step of 0 and a negative minor step on a 3 s timeline: a tick per
\* second from each loop
C24_Witness ==
    /\ Built
    /\ vtProps.labelEverySec = Some(0)
    /\ vtProps.minorTickEverySec = Some(-Num(2))
    /\ vt.safeDuration = Num(3)
    /\ Len(vt.labels) = 4
    /\ Len(VtMinorTicks(MinorEvery, vt.safeDuration)) = 4
    /\ vt.minorTicks = <<>>

(***************************************************************************)
(* Properties of the drawer (Spec)                                         *)
(***************************************************************************)
SelectionChange == (\E id \in PersonIds : PersonClick(id)) \/ ShowAll

\* every value selectedPersonId can take
Selections == {None} \cup {Some(id) : id \in PersonIds \cup {UNKNOWN_ID}}

\* C14: a selection change (onPersonClick, onShowAll) leaves events,
\* durationSec and analysis unchanged and starts no analysis request; and the
\* layout height and the major and minor ticks on the screen are those of
\* every other value of selectedPersonId.
C14_SelectionLeavesTimeline ==
    /\ [](\A sel \in Selections :
            LET v == VerticalTimeline(durationSec, filteredEvents(events, sel), vtProps)
            IN  /\ v.heightPx = vt.heightPx
                /\ v.labels = vt.labels
                /\ v.minorTicks = vt.minorTicks)
    /\ [][SelectionChange =>
            UNCHANGED <<events, durationSec, analysis, analysisReqs, analysisLoading>>]_vars

\* a person selected whose events are not all the events
C14_Witness ==
    /\ life = "mounted"
    /\ selectedPersonId = Some("1")
    /\ events # <<>>
    /\ filtered # events
    /\ vt.events = <<>>

\* the rosters an analysis effect can have captured: the initial [] and the
\* roster the backend serves
CapturedRosters == {<<>>, serverPeople}

\* C15: whenever a response has been applied, events and durationSec are
\* exactly buildEventsFromAnalysis of that response's payload with the roster
\* of the effect that issued the request.  In every state the drawer holds
\* either no analysis and the empty timeline, or an analysis and exactly its
\* build, so that nothing of an earlier payload remains.
C15_FullRebuild ==
    /\ [](IF analysis = None THEN events = <<>> /\ durationSec = 0
          ELSE \E roster \in CapturedRosters :
                  LET built == buildEventsFromAnalysis(analysis[1], roster)
                  IN  events = built.out /\ durationSec = built.safeDuration)
    /\ [][\A r \in analysisReqs :
            (AnalysisResolve(r) /\ r.alive /\ server[r.clip].kind = "ok") =>
                LET built == buildEventsFromAnalysis(server[r.clip].analysis, r.roster)
                IN  /\ analysis' = Some(server[r.clip].analysis)
                    /\ events' = built.out
                    /\ durationSec' = built.safeDuration]_vars

\* the payload of clip c2 applied, built with the loaded roster: clip c2 is
\* shown only after a clip change
C15_Witness ==
    /\ analysis = Some(DrawerPayloadB)
    /\ activeClipId = Some("c2")
    /\ people = DrawerRoster
    /\ events = buildEventsFromAnalysis(DrawerPayloadB, DrawerRoster).out
    /\ events # buildEventsFromAnalysis(DrawerPayloadB, <<>>).out
    /\ events # buildEventsFromAnalysis(DrawerPayloadA, DrawerRoster).out

\* the steps in which the filter and the layout run on the held list and no
\* handler stores another one
ReadersOnly == SelectionChange \/ (\E day \in DayIds : DayChange(day))

Live == {r \in analysisReqs : r.alive}

\* C26: stale responses are discarded.  At most one request is live, and it is
\* the one started for the clip and the roster the mounted drawer now holds:
\* every change of activeClipId or of the roster, and the unmount, cancels the
\* requests in flight.  The response or the failure of a cancelled request,
\* whenever it arrives, leaves analysis, durationSec, events,
\* selectedPersonId and analysisLoading unchanged.
C26_StaleDiscarded ==
    /\ [](/\ Cardinality(Live) <= 1
          /\ \A r \in Live : /\ life = "mounted"
                              /\ activeClipId = Some(r.clip)
                              /\ r.roster = people)
    /\ [][\A r \in analysisReqs :
            (AnalysisResolve(r) /\ ~r.alive) =>
                UNCHANGED <<analysis, durationSec, events, selectedPersonId,
                            analysisLoading>>]_vars

\* clip c1 shown, clip c2 requested, the drawer unmounted and the answer of c2
\* arrived: the drawer still holds the analysis of c1 and still says loading
C26_Witness ==
    /\ life = "unmounted"
    /\ activeClipId = Some("c2")
    /\ analysisReqs = {}
    /\ analysis = Some(DrawerPayloadA)
    /\ events # <<>>
    /\ analysisLoading

\* C27: analysisLoading is true only while a live analysis request is in
\* flight: in every state of the mounted drawer with no live request,
\* analysisLoading is false.
C27_LoadingOnlyWhileLive ==
    (life = "mounted" /\ Live = {}) => ~analysisLoading

\* the drawer holds no analysis and the empty timeline
NoTimeline(a, d, evs) == a = None /\ d = 0 /\ evs = <<>>

\* the parent passes no clip
ClipCleared == ClipChange(None)

\* C28: a failed analysis leaves no stale timeline.  When the live request of
\* the current clip answers ok = false or throws, and when activeClipId
\* becomes null, the drawer then holds analysis = null, durationSec = 0 and
\* events = [], and selectedPersonId is as it was; and the mounted drawer with
\* no clip holds no timeline in any state.
C28_FailureClearsTimeline ==
    /\ []((life = "mounted" /\ activeClipId = None) =>
             NoTimeline(analysis, durationSec, events))
    /\ [][\A r \in analysisReqs :
            (AnalysisResolve(r) /\ r.alive /\ server[r.clip].kind # "ok") =>
                /\ NoTimeline(analysis', durationSec', events')
                /\ UNCHANGED selectedPersonId]_vars
    /\ [][ClipCleared =>
            /\ NoTimeline(analysis', durationSec', events')
            /\ UNCHANGED selectedPersonId]_vars

\* clip c2 has failed after a person was selected: nothing of clip c1 is
\* left, the selection is, and the request is over
C28_Witness ==
    /\ life = "mounted"
    /\ activeClipId = Some("c2")
    /\ server["c2"].kind = "throw"
    /\ analysisReqs = {}
    /\ ~analysisLoading
    /\ NoTimeline(analysis, durationSec, events)
    /\ selectedPersonId = Some("2")

\* the ids of the roster cards
RosterIds == {people[k].id : k \in DOMAIN people}

\* C29: in every state of the drawer selectedPersonId is null or the id of an
\* entry of the current roster: a selection is set from a roster card only,
\* and every applied roster load and every applied successful analysis sets
\* it to null.
C29_SelectionInRoster ==
    /\ [](selectedPersonId = None \/ selectedPersonId[1] \in RosterIds)
    /\ [][\A r \in peopleReqs, ok \in BOOLEAN :
            (PeopleResolve(r, ok) /\ r.alive) => selectedPersonId' = None]_vars
    /\ [][\A r \in analysisReqs :
            (AnalysisResolve(r) /\ r.alive /\ server[r.clip].kind = "ok") =>
                selectedPersonId' = None]_vars
    /\ [][selectedPersonId' \notin {None, selectedPersonId} =>
            \E id \in RosterIds : PersonClick(id)]_vars

\* the second card selected on a timeline that was built while the roster was
\* still empty, that roster since replaced by a load
C29_Witness ==
    /\ life = "mounted"
    /\ people = DrawerRoster
    /\ selectedPersonId = Some("2")
    /\ analysis = Some(DrawerPayloadA)
    /\ events = buildEventsFromAnalysis(DrawerPayloadA, <<>>).out
    /\ events # buildEventsFromAnalysis(DrawerPayloadA, DrawerRoster).out

(***************************************************************************)
(* The layout of a built list (BuildSpec)                                  *)
(***************************************************************************)
\* the elements of s at the positions keep, in the order of s
Subsequence(s, keep) ==
    LET upTo[k \in 0..Len(s)] ==
            IF k = 0 THEN <<>>
            ELSE IF k \in keep THEN Append(upTo[k - 1], s[k]) ELSE upTo[k - 1]
    IN  upTo[Len(s)]

\* the events on the screen, in the order of the screen
Displayed == [k \in DOMAIN vt.events |-> vt.events[k].ev]

\* C30: the renderer's normalisation is the identity on the builder's output.
\* For the built list and duration, and for every subsequence of that list
\* (the filtered one among them), VerticalTimeline's clamp of atSec to
\* [0, max(1, floor(durationSec))] followed by its sort on atSec alone
\* returns the list it was given; so the events on the screen are the
\* filtered events, in an order in which atSec never decreases, a warning
\* never follows an observation of the same time and warnings of the same
\* time are in non-increasing severity rank.
C30_LayoutKeepsBuiltOrder ==
    /\ \A keep \in SUBSET DOMAIN events :
          LET sub == Subsequence(events, keep)
          IN  VtNormalizedEvents(sub, VtSafeDuration(durationSec)) = sub
    /\ Displayed = filtered
    /\ \A k \in 1..(Len(Displayed) - 1) :
          LET e1 == Displayed[k]
              e2 == Displayed[k + 1]
          IN  /\ e1.atSec <= e2.atSec
              /\ e1.atSec = e2.atSec => ~(e1.variant = "info" /\ e2.variant = "warn")
              /\ (e1.atSec = e2.atSec /\ e1.variant = "warn" /\ e2.variant = "warn")
                     => ClaimedRank(e1.severity) >= ClaimedRank(e2.severity)

\* two of three built events on the screen, the observation of someone unknown
\* filtered out: a warning, then an observation at the last second of the clip
C30_Witness ==
    /\ Built
    /\ selectedPersonId = Some("1")
    /\ Len(events) = 3
    /\ events[3].personId = UNKNOWN_ID
    /\ Len(Displayed) = 2
    /\ Displayed[1].variant = "warn"
    /\ Displayed[2].variant = "info"
    /\ Displayed[1].atSec < Displayed[2].atSec
    /\ Displayed[2].atSec = vt.safeDuration
====
